---- MODULE Spec2Model ----
(***************************************************************************)
(* State-machine model of src/httpepserver/KmsHttpEPServer.cpp: the        *)
(* registry of HttpEndPoint elements (priv->handlers), the cookie session  *)
(* and expiry timer kept as GObject data on each element, the life cycle   *)
(* of the SoupMessage bound to an element (KEY_MESSAGE), and the hand-off  *)
(* of samples from the element's streaming thread to the main context.     *)
(*                                                                         *)
(* Callbacks that run in the main context (got-headers, finished, timeout  *)
(* and idle sources, the public register/unregister/start/stop calls) are  *)
(* atomic actions.  The streaming thread of an element runs the            *)
(* new-sample handler in two steps (invocation, then body) and the eos     *)
(* handler in one.                                                         *)
(*                                                                         *)
(* Time is kept relative: a cookie and a timeout source carry the number   *)
(* of seconds left, and Tick lets seconds pass.                            *)
(***************************************************************************)
EXTENDS Integers, Sequences, FiniteSets, TLC

\* ---- bounds of the model ----
MaxMsgs == 2          \* requests bound to an element over a run
MaxSamples == 2       \* samples pulled over a run
MaxLifetime == 1      \* cookie lifetime passed to register (seconds)
MaxTimeout == 1       \* idle timeout passed to register (seconds)
MaxChunks == 2        \* chunks in which a request body arrives
MaxDeliveries == 2    \* emissions of "finished" for one message

\* ---- program constants ----
SOUP_STATUS_OK == 200
SOUP_STATUS_BAD_REQUEST == 400
SOUP_STATUS_NOT_FOUND == 404
SOUP_STATUS_METHOD_NOT_ALLOWED == 405
SOUP_STATUS_NOT_ACCEPTABLE == 406
COOKIE_NAME == "HttpEPCookie"

\* ---- finite domains of the inputs ----
Endpoints == {"ep1", "ep2"}          \* httpendpoint elements handed to register
NotHttp == "fakesink"                \* an element of another type
Paths == {"/u1", "/u2"}              \* "/" + uuid, the uuid is drawn by libuuid
NoEP == "none"                       \* g_hash_table_lookup () == NULL
Methods == {"GET", "POST", "PUT"}
Lifetimes == {MaxLifetime}
Timeouts == {MaxTimeout}
CookieVals == {1, 2}                 \* values g_rand_double_range () may draw
\* cookie lists a request may carry (soup_cookies_from_request)
ReqCookies ==
  { << >>,
    << [name |-> COOKIE_NAME, value |-> 1] >>,
    << [name |-> COOKIE_NAME, value |-> 2] >>,
    << [name |-> "other", value |-> 1] >>,
    << [name |-> COOKIE_NAME, value |-> 2], [name |-> COOKIE_NAME, value |-> 1] >> }
\* content types of a POST: absent, or the media type as a character sequence
\* ("m/" stands for "multipart/", "m/x" for "multipart/x", "t/p" for "text/plain")
NoCT == << >>
Multipart == <<"m", "/">>
CTypes == { NoCT, <<"m", "/">>, <<"m", "/", "x">>, <<"t", "/", "p">> }
NoCookie == [value |-> 0, left |-> 0]
NoMsg == 0
NoTimer == 0

VARIABLES
  server,        \* priv->server != NULL
  handlers,      \* priv->handlers: [null |-> BOOLEAN, table |-> [Paths -> element or NoEP]]
  epCookie,      \* KEY_COOKIE of each element: value and seconds until it expires
  epLifetime,    \* KEY_PARAM_LIFETIME
  epTimeout,     \* KEY_PARAM_TIMEOUT
  epMessage,     \* KEY_MESSAGE: the message bound to the element
  epTimeoutId,   \* KEY_TIMEOUT_ID
  epStart,       \* the element's "start" property
  epSigs,        \* messages whose new-sample/eos handlers are connected to the element
  msgs,          \* the SoupMessages received so far, in order of arrival
  timers,        \* pending timeout sources: [id, left]; the id of a source is the
                 \* message whose completion added it (finished is emitted once)
  idleq,         \* pending idle sources of priority G_PRIORITY_HIGH_IDLE, oldest first
  prod,          \* position of each element's streaming thread in new_sample_handler
  nextSample,    \* samples pulled so far
  removedBy,     \* who emitted url-removed for a path last ("none" once registered again)
  last,          \* the step just taken: public call or request, with inputs and result
  crashed        \* the process died on an invalid memory access

vars == << server, handlers, epCookie, epLifetime, epTimeout, epMessage,
           epTimeoutId, epStart, epSigs, msgs, timers, idleq,
           prod, nextSample, removedBy, last, crashed >>

epVars == << epCookie, epLifetime, epTimeout, epMessage, epTimeoutId,
             epStart, epSigs >>

MsgIds == 1..MaxMsgs
NoStep == [op |-> "none"]

\* ---- small helpers ----

Min(a, b) == IF a < b THEN a ELSE b

RECURSIVE SeqFilter(_, _)
\* the subsequence of s whose elements are in set S
SeqFilter(s, S) ==
  IF s = << >> THEN << >>
  ELSE IF Head(s) \in S THEN << Head(s) >> \o SeqFilter(Tail(s), S)
       ELSE SeqFilter(Tail(s), S)

\* g_hash_table_lookup (self->priv->handlers, path); a NULL table yields NULL
Lookup(path) ==
  IF handlers.null THEN NoEP ELSE handlers.table[path]

\* a cookie whose expiry date is never looked at
cookie_never_expires(cookie) == FALSE

\* soup_date_is_past (soup_cookie_get_expires (cookie))
cookie_has_expired(cookie) == cookie.left < 0

\* g_source_remove (id) on the set of pending timeout sources
SourceRemove(ts, id) == { t \in ts : t.id # id }

\* remove_cookie_timeout without the g_source_remove
remove_cookie_timeout_kept(ts, ep) == ts

\* remove_cookie_timeout: the sources left pending
remove_cookie_timeout(ts, ep) ==
  IF epTimeoutId[ep] = NoTimer THEN ts ELSE SourceRemove(ts, epTimeoutId[ep])

Init ==
  /\ server = FALSE
  /\ handlers = [null |-> FALSE, table |-> [p \in Paths |-> NoEP]]
  /\ epCookie = [e \in Endpoints |-> NoCookie]
  /\ epLifetime = [e \in Endpoints |-> 0]
  /\ epTimeout = [e \in Endpoints |-> 0]
  /\ epMessage = [e \in Endpoints |-> NoMsg]
  /\ epTimeoutId = [e \in Endpoints |-> NoTimer]
  /\ epStart = [e \in Endpoints |-> FALSE]
  /\ epSigs = [e \in Endpoints |-> {}]
  /\ msgs = << >>
  /\ timers = {}
  /\ idleq = << >>
  /\ prod = [e \in Endpoints |-> "idle"]
  /\ nextSample = 0
  /\ removedBy = [p \in Paths |-> "none"]
  /\ last = NoStep
  /\ crashed = FALSE

\* ---- registry ----

\* register_handler without the lookup that refuses a registered uri
\* (g_hash_table_insert replaces the value of an existing key)
register_handler_overwrite(uri, endpoint) ==
  IF handlers.null THEN handlers.table
  ELSE [handlers.table EXCEPT ![uri] = endpoint]

\* kms_http_ep_server_register_handler: the table after the call
register_handler_table(uri, endpoint) ==
  IF handlers.null THEN handlers.table          \* g_hash_table_insert (NULL, ..) does nothing
  ELSE IF handlers.table[uri] # NoEP THEN handlers.table
  ELSE [handlers.table EXCEPT ![uri] = endpoint]

\* kms_http_ep_server_register_handler: its return value
register_handler_ok(uri) == Lookup(uri) = NoEP

\* kms_http_ep_server_register_end_point_impl; uri is the uuid libuuid drew
RegisterEndPoint(endpoint, uri, lifetime, timeout) ==
  /\ ~crashed
  /\ endpoint \in Endpoints            \* KMS_IS_EXPECTED_TYPE (endpoint, http_t)
  /\ handlers' = [handlers EXCEPT !.table = register_handler_table(uri, endpoint)]
  /\ IF register_handler_ok(uri)
     THEN /\ epLifetime' = [epLifetime EXCEPT ![endpoint] = lifetime]
          /\ epTimeout' = [epTimeout EXCEPT ![endpoint] = timeout]
          /\ removedBy' = IF handlers.null THEN removedBy
                          ELSE [removedBy EXCEPT ![uri] = "none"]
     ELSE /\ UNCHANGED << epLifetime, epTimeout, removedBy >>
  /\ UNCHANGED << server, epCookie, epMessage, epTimeoutId, epStart, epSigs,
                  msgs, timers, idleq, prod, nextSample, crashed >>

\* kms_http_ep_server_register_end_point_impl on an element that is not an
\* httpendpoint: NULL is returned before a uuid is drawn
RegisterOther ==
  /\ ~crashed
  /\ UNCHANGED << server, handlers, epVars, msgs, timers, idleq, prod,
                  nextSample, removedBy, crashed >>

\* emit_removed_url_signal for the paths in ps, noted on the messages that
\* came for them
MarkRemoved(ms, ps, by) ==
  [k \in DOMAIN ms |->
     IF ms[k].path \in ps THEN [ms[k] EXCEPT !.removed = by] ELSE ms[k]]

\* kms_http_ep_server_start_impl / kms_http_ep_server_create_server
Start ==
  /\ ~crashed
  /\ server = FALSE
  /\ server' = TRUE
  /\ UNCHANGED << handlers, epVars, msgs, timers, idleq, prod,
                  nextSample, removedBy, crashed >>

\* kms_http_ep_server_stop_impl with kms_http_ep_server_destroy_handlers
Stop ==
  /\ ~crashed
  /\ IF server = FALSE
     THEN UNCHANGED << handlers, removedBy, msgs >>
     ELSE /\ removedBy' = [p \in Paths |->
                             IF Lookup(p) # NoEP THEN "stop" ELSE removedBy[p]]
          /\ msgs' = MarkRemoved(msgs, {p \in Paths : Lookup(p) # NoEP}, "stop")
          /\ handlers' = [null |-> TRUE, table |-> [p \in Paths |-> NoEP]]
  /\ UNCHANGED << server, epVars, timers, idleq, prod,
                  nextSample, crashed >>

\* n seconds pass
Tick(n) ==
  /\ ~crashed
  /\ epCookie' = [e \in Endpoints |->
                    IF epCookie[e] = NoCookie \/ epCookie[e].left < 0
                    THEN epCookie[e]
                    ELSE [epCookie[e] EXCEPT !.left = IF @ >= n THEN @ - n ELSE -1]]
  /\ timers' = { [t EXCEPT !.left = IF @ > n THEN @ - n ELSE 0] : t \in timers }
  /\ UNCHANGED << server, handlers, epLifetime, epTimeout, epMessage, epTimeoutId,
                  epStart, epSigs, msgs, idleq, prod, nextSample,
                  removedBy, crashed >>

\* ---- messages ----

\* a SoupMessage on which request_started_handler connected got_headers_handler;
\* msgs holds those that got past the cookie check
NewMsg(method, path) ==
  [ method |-> method, path |-> path,
    ep |-> NoEP,            \* the element it was bound to (KEY_MESSAGE), if any
    status |-> 0,
    setCookie |-> 0,        \* value of the Set-Cookie response header, 0 if absent
    action |-> "none",      \* action-requested emitted for it
    finished |-> "none",    \* KEY_FINISHED: "none" (no such datum), "F" or "T"
    finConn |-> FALSE,      \* "finished" handler connected
    chunkConn |-> FALSE,    \* "got-chunk" handler connected
    boundary |-> FALSE,     \* KEY_BOUNDARY stored
    body |-> << >>,         \* samples appended to response_body
    complete |-> FALSE,     \* soup_message_body_complete (response_body) called
    touchedBy |-> {},       \* threads that modified the response
    submitted |-> << >>,    \* samples handed to g_idle_add_full for it
    nexp |-> 0,             \* url-expired emissions its completion gave rise to
    torn |-> "no",          \* torn down by destroy_pending_message: by whom
    removed |-> "no",       \* url-removed emitted for its path since: by whom
    tornLen |-> 0,          \* Len(body) when it was torn down
    ctype |-> NoCT,         \* Content-Type of the request
    bparam |-> FALSE,       \* the Content-Type has a boundary parameter
    recvd |-> << >>,        \* bytes of the request body got so far
    nchunks |-> 0,          \* chunks of the request body got so far
    pushed |-> << >>,       \* bytes pushed to the element with push-buffer
    nfin |-> 0 ]            \* runs of its "finished" handler

\* destroy_pending_message reads a handler id the message does not carry
\* (*handlerid with handlerid == NULL): KEY_GOT_CHUNK_HANDLER_ID and
\* KEY_FINISHED_HANDLER_ID are set by the handlers that set KEY_FINISHED
dpm_faults(m) == msgs[m].finished = "none"

\* disconnect_eos_new_sample_signals: the handlers left connected
disconnect_eos_new_sample_signals(sg, m) ==
  IF handlers.null THEN sg
  ELSE IF handlers.table[msgs[m].path] = NoEP THEN sg
  ELSE [sg EXCEPT ![handlers.table[msgs[m].path]] = @ \ {m}]

\* destroy_pending_message without disconnect_eos_new_sample_signals
dpm_sigs_kept(sg, m) == sg

\* destroy_pending_message: the handlers left connected to the elements
dpm_sigs(sg, m) ==
  IF msgs[m].method = "GET" THEN disconnect_eos_new_sample_signals(sg, m) ELSE sg

\* destroy_pending_message: the "start" properties
dpm_start(st, m) ==
  IF msgs[m].method = "GET" /\ Lookup(msgs[m].path) # NoEP
  THEN [st EXCEPT ![Lookup(msgs[m].path)] = FALSE]
  ELSE st

\* the datum released without its destroy notification: the message keeps
\* its handlers
dpm_msg_forgotten(m, by) == msgs[m]

\* destroy_pending_message: the message itself; by is who unbound it
dpm_msg(m, by) ==
  LET r == msgs[m] IN
  [r EXCEPT !.complete = IF r.method = "GET" THEN TRUE ELSE @,
            !.touchedBy = IF r.method = "GET" THEN @ \cup {"loop"} ELSE @,
            !.chunkConn = IF r.method = "POST" THEN FALSE ELSE @,
            !.finConn = FALSE,
            !.torn = by,
            !.tornLen = Len(r.body)]

\* outcomes of releasing the datum KEY_MESSAGE held before (old): nothing to
\* release, a clean tear-down, or the invalid read, after which the process
\* dies or goes on with an id that matches no handler
ReleaseOutcomes(old) ==
  IF old = NoMsg THEN {"none"}
  ELSE IF dpm_faults(old) THEN {"crash", "garbage"}
  ELSE {"clean"}

\* emit_expiration_signal (msg, httpep): url-expired now, or a timeout source
ArmsTimer(ep) ==
  epCookie[ep] # NoCookie /\ ~cookie_has_expired(epCookie[ep])

ExpiresNow(ep) ==
  epCookie[ep] # NoCookie /\ cookie_has_expired(epCookie[ep])

\* emit_expiration_signal: interval, in seconds
Interval(ep) == Min(epCookie[ep].left, epTimeout[ep])

\* a guint is kept as two halves of 16 bits
HALF == 65536

\* interval * 1000 in a guint (modulo 2^32): its high and its low half
mul1000_hi(i) == (((i \div HALF) * 1000) + (((i % HALF) * 1000) \div HALF)) % HALF
mul1000_lo(i) == ((i % HALF) * 1000) % HALF

\* interval * 1000, the milliseconds emit_expiration_signal passes to
\* g_timeout_add_full, as the whole seconds after which the source is due
SourceInterval(ep) ==
  LET hi == mul1000_hi(Interval(ep))
      lo == mul1000_lo(Interval(ep))
  IN (hi \div 1000) * HALF + (((hi % 1000) * HALF + lo) \div 1000)

\* emit_expiration_signal (msg, httpep): the pending timeout sources afterwards
emit_expiration_signal_timers(ts, m, ep) ==
  IF ArmsTimer(ep)
  THEN ts \cup { [id |-> m, left |-> SourceInterval(ep)] }
  ELSE ts

\* emit_expiration_signal (msg, httpep): KEY_TIMEOUT_ID afterwards
emit_expiration_signal_id(m, ep) ==
  IF ArmsTimer(ep) THEN m ELSE epTimeoutId[ep]

\* kms_http_ep_server_unregister_end_point_impl
UnregisterEndPoint(uri) ==
  /\ ~crashed
  /\ IF handlers.null \/ handlers.table[uri] = NoEP
     THEN /\ UNCHANGED << handlers, epVars, msgs, timers, removedBy, crashed >>
     ELSE LET httpep == handlers.table[uri]
              old == epMessage[httpep]
          IN \E out \in ReleaseOutcomes(old) :
               IF out = "crash"
               THEN /\ crashed' = TRUE
                    /\ UNCHANGED << handlers, epVars, msgs, timers, removedBy >>
               ELSE /\ timers' = remove_cookie_timeout(timers, httpep)
                    /\ epTimeoutId' = [epTimeoutId EXCEPT ![httpep] = NoTimer]
                    /\ epMessage' = [epMessage EXCEPT ![httpep] = NoMsg]
                    /\ epSigs' = IF out = "clean" THEN dpm_sigs(epSigs, old) ELSE epSigs
                    /\ epStart' = IF out = "clean" THEN dpm_start(epStart, old) ELSE epStart
                    /\ msgs' = MarkRemoved(
                                 IF out = "clean"
                                 THEN [msgs EXCEPT ![old] = dpm_msg(old, "unreg")]
                                 ELSE msgs, {uri}, "unregister")
                    /\ handlers' = [handlers EXCEPT !.table[uri] = NoEP]
                    /\ removedBy' = [removedBy EXCEPT ![uri] = "unregister"]
                    /\ UNCHANGED << epCookie, epLifetime, epTimeout, crashed >>
  /\ UNCHANGED << server, idleq, prod, nextSample >>

\* ---- dispatch of a request ----

RECURSIVE check_cookie_named(_, _)
\* the loop of check_cookie without the comparison of the values
check_cookie_named(cookie, cookies) ==
  IF cookies = << >> THEN FALSE
  ELSE IF Head(cookies).name # COOKIE_NAME THEN check_cookie_named(cookie, Tail(cookies))
  ELSE TRUE

RECURSIVE check_cookie_loop(_, _)
\* the loop of kms_http_ep_server_check_cookie over the request's cookies
check_cookie_loop(cookie, cookies) ==
  IF cookies = << >> THEN FALSE
  ELSE IF Head(cookies).name # COOKIE_NAME THEN check_cookie_loop(cookie, Tail(cookies))
  ELSE IF Head(cookies).value = cookie.value THEN TRUE
  ELSE check_cookie_loop(cookie, Tail(cookies))

\* kms_http_ep_server_check_cookie
kms_http_ep_server_check_cookie(cookie, cookies) ==
  IF cookie_has_expired(cookie) THEN FALSE
  ELSE IF cookies = << >> THEN FALSE
  ELSE check_cookie_loop(cookie, cookies)

\* kms_http_ep_server_manage_cookie_session: its return value
kms_http_ep_server_manage_cookie_session(httpep, cookies) ==
  IF epCookie[httpep] # NoCookie
  THEN kms_http_ep_server_check_cookie(epCookie[httpep], cookies)
  ELSE TRUE

\* kms_http_ep_server_set_cookie: the cookie stored as KEY_COOKIE, id is the
\* number drawn from priv->rand
kms_http_ep_server_set_cookie(httpep, id) ==
  [value |-> id, left |-> epLifetime[httpep]]

\* g_str_has_prefix (str, prefix)
g_str_has_prefix(str, prefix) ==
  /\ Len(prefix) <= Len(str)
  /\ SubSeq(str, 1, Len(prefix)) = prefix

\* kms_http_ep_server_post_handler: the test that sends it to the multipart
\* branch, g_str_has_prefix ("multipart/", content_type)
IsMultipartBranch(ctype) == g_str_has_prefix(Multipart, ctype)

\* kms_http_ep_server_post_handler: the status it sets
post_status(ctype, hasBoundary) ==
  IF ctype = NoCT THEN SOUP_STATUS_NOT_ACCEPTABLE
  ELSE IF ~IsMultipartBranch(ctype) THEN SOUP_STATUS_OK
  ELSE IF ~hasBoundary THEN SOUP_STATUS_NOT_ACCEPTABLE
  ELSE SOUP_STATUS_OK

\* kms_http_ep_server_post_handler: params is read at "end:" although
\* soup_message_headers_get_content_type left it unset when it returned NULL;
\* the read yields NULL ("ok") or a wild pointer that is destroyed ("crash")
ParamsOutcomes(method, ctype) ==
  IF method = "POST" /\ ctype = NoCT THEN {"ok", "crash"} ELSE {"ok"}

\* kms_http_ep_server_get_handler: the message once its handlers are installed
kms_http_ep_server_get_handler(r) ==
  [r EXCEPT !.status = SOUP_STATUS_OK, !.finished = "F", !.finConn = TRUE]

\* kms_http_ep_server_post_handler: the message when it returns
kms_http_ep_server_post_handler(r, ctype, hasBoundary) ==
  IF post_status(ctype, hasBoundary) = SOUP_STATUS_OK
  THEN [r EXCEPT !.status = SOUP_STATUS_OK, !.finished = "F",
                 !.chunkConn = TRUE, !.finConn = TRUE,
                 !.boundary = IsMultipartBranch(ctype) /\ hasBoundary]
  ELSE [r EXCEPT !.status = SOUP_STATUS_NOT_ACCEPTABLE]

\* got_headers_handler from the binding of the message on: the message
Dispatch(r, ctype, hasBoundary) ==
  IF r.method = "GET"
  THEN [kms_http_ep_server_get_handler(r) EXCEPT !.action = "GET"]
  ELSE IF r.method = "POST"
  THEN [kms_http_ep_server_post_handler(r, ctype, hasBoundary) EXCEPT !.action = "POST"]
  ELSE [r EXCEPT !.status = SOUP_STATUS_METHOD_NOT_ALLOWED]

\* got_headers_handler; id is the number priv->rand gives if a cookie is made
GotHeaders(method, path, cookies, ctype, hasBoundary, id) ==
  /\ ~crashed
  /\ server
  /\ (Lookup(path) # NoEP /\ kms_http_ep_server_manage_cookie_session(Lookup(path), cookies))
       => Len(msgs) < MaxMsgs
  /\ LET m == Len(msgs) + 1
         httpep == Lookup(path)
         r == NewMsg(method, path)
     IN
     IF httpep = NoEP
     THEN /\ UNCHANGED << epVars, msgs, timers, crashed >>
     ELSE IF ~kms_http_ep_server_manage_cookie_session(httpep, cookies)
     THEN /\ UNCHANGED << epVars, msgs, timers, crashed >>
     ELSE
       LET old == epMessage[httpep]
           fresh == epCookie[httpep] = NoCookie
       IN \E out \in ReleaseOutcomes(old),
             px \in ParamsOutcomes(method, ctype) :
            IF out = "crash" \/ px = "crash"
            THEN /\ crashed' = TRUE
                 /\ UNCHANGED << epVars, msgs, timers >>
            ELSE
              LET sigs1 == IF out = "clean" THEN dpm_sigs(epSigs, old) ELSE epSigs
                  start1 == IF out = "clean" THEN dpm_start(epStart, old) ELSE epStart
                  msgs1 == IF out = "clean"
                           THEN [msgs EXCEPT ![old] = dpm_msg(old, "replaced")]
                           ELSE msgs
                  bound == [r EXCEPT !.ep = httpep,
                                     !.setCookie = IF fresh THEN id ELSE 0,
                                     !.ctype = ctype,
                                     !.bparam = hasBoundary]
              IN /\ epCookie' = IF fresh
                                THEN [epCookie EXCEPT
                                        ![httpep] = kms_http_ep_server_set_cookie(httpep, id)]
                                ELSE epCookie
                 /\ timers' = remove_cookie_timeout(timers, httpep)
                 /\ epTimeoutId' = [epTimeoutId EXCEPT ![httpep] = NoTimer]
                 /\ epMessage' = [epMessage EXCEPT ![httpep] = m]
                 /\ msgs' = Append(msgs1, Dispatch(bound, ctype, hasBoundary))
                 /\ epSigs' = IF method = "GET"
                              THEN [sigs1 EXCEPT ![httpep] = @ \cup {m}]
                              ELSE sigs1
                 /\ epStart' = IF method = "GET"
                               THEN [start1 EXCEPT ![httpep] = TRUE]
                               ELSE start1
                 /\ UNCHANGED << epLifetime, epTimeout, crashed >>
  /\ UNCHANGED << server, handlers, idleq, prod, nextSample, removedBy >>

\* ---- request body of a POST ----

\* Bytes are one-character strings; CR, LF and NUL stand for "\r", "\n" and
\* the zero byte.  A pointer into a chunk is the index of its byte: 1 is
\* chunk->data and Len(data) + 1 is chunk->data + chunk->length.
CR == "CR"
LF == "LF"
NUL == "NUL"
Dash == "-"
CRLF == << CR, LF >>

\* the null pointer: address 0 lies below every address of a chunk
NULL == -1000

\* what lies around a chunk in memory when the code reads outside it (mem),
\* and whether the comparison of a null pointer with end holds (nullLt)
OutsideBytes == { NUL, CR, LF }
Undefined == [ mem : OutsideBytes, nullLt : BOOLEAN ]

\* the byte at p
ByteAt(data, p, mem) == IF p \in 1..Len(data) THEN data[p] ELSE mem

\* memchr (from, ch, len)
memchr(data, from, ch, len, mem) ==
  LET hits == { p \in from..(from + len - 1) : ByteAt(data, p, mem) = ch }
  IN IF hits = {} THEN NULL
     ELSE CHOOSE p \in hits : \A q \in hits : p <= q

\* find_content_part, first loop from the candidate b on: the part start and
\* the part end it leaves in *content_start and *content_end
RECURSIVE find_markers(_, _, _, _, _, _)
find_markers(data, boundary, mem, b, cs, ce) ==
  LET end == Len(data) + 1
      boundary_len == Len(boundary)
  IN IF b = NULL \/ ~(b + boundary_len + 4 < end)
     THEN [content_start |-> cs, content_end |-> ce]
     ELSE
       LET next == memchr(data, b + 2, Dash, end - (b + 2), mem)
           \* the string at b + 2 runs to the first zero byte, which is
           \* not before end
           str == SubSeq(data, b + 2, Len(data))
       IN IF data[b + 1] # Dash \/ g_str_has_prefix(boundary, str)
          THEN find_markers(data, boundary, mem, next, cs, ce)
          ELSE IF ~(b = 1 \/ ( /\ ByteAt(data, b - 1, mem) = LF
                                /\ ByteAt(data, b - 2, mem) = CR ))
          THEN find_markers(data, boundary, mem, next, cs, ce)
          ELSE IF /\ data[b + boundary_len + 2] = Dash
                  /\ data[b + boundary_len + 3] = Dash
          THEN find_markers(data, boundary, mem, next, cs, b - 2)
          ELSE IF /\ data[b + boundary_len + 2] = CR
                  /\ data[b + boundary_len + 3] = LF
          THEN find_markers(data, boundary, mem, next, b + boundary_len + 3, ce)
          ELSE find_markers(data, boundary, mem, next, cs, ce)

\* find_content_part, second loop from the candidate c on: *content_start
\* afterwards, or the invalid access that ends the process
RECURSIVE find_blank_line(_, _, _, _)
find_blank_line(data, ub, c, cs) ==
  LET end == Len(data) + 1 IN
  IF c = NULL
  THEN [content_start |-> cs, crash |-> ub.nullLt]      \* c[1] with c == NULL
  ELSE IF ~(c < end)
  THEN [content_start |-> cs, crash |-> FALSE]
  ELSE IF /\ ByteAt(data, c + 1, ub.mem) = LF
          /\ ByteAt(data, c + 2, ub.mem) = CR
          /\ ByteAt(data, c + 3, ub.mem) = LF
  THEN [content_start |-> c + 4, crash |-> FALSE]
  ELSE IF end - (c + 2) < 0
       \* the length wraps to SIZE_MAX: memchr runs through the memory after
       \* the chunk until it meets "\r" or an unmapped page
  THEN [content_start |-> cs, crash |-> ub.mem # CR]
  ELSE find_blank_line(data, ub,
                       memchr(data, c + 4, CR, end - (c + 2), ub.mem), cs)

\* find_content_part (chunk->data, chunk->data + chunk->length, ..., boundary)
find_content_part(data, boundary, ub) ==
  LET end == Len(data) + 1
      mk == find_markers(data, boundary, ub.mem,
                         memchr(data, 1, Dash, end - 1, ub.mem), NULL, NULL)
  IN IF mk.content_start = NULL
     THEN [content_start |-> NULL, content_end |-> mk.content_end, crash |-> FALSE]
     ELSE LET bl == find_blank_line(data, ub,
                       memchr(data, mk.content_start, CR,
                              end - mk.content_start, ub.mem),
                       mk.content_start)
          IN [content_start |-> bl.content_start, content_end |-> mk.content_end,
              crash |-> bl.crash]

\* got_chunk_handler: the part of the chunk it finds (nothing looked for
\* without KEY_BOUNDARY)
chunk_part(data, stored, boundary, ub) ==
  IF stored THEN find_content_part(data, boundary, ub)
  ELSE [content_start |-> NULL, content_end |-> NULL, crash |-> FALSE]

\* got_chunk_handler: len
chunk_len(data, part) ==
  IF part.content_start # NULL
  THEN IF part.content_end # NULL
       THEN part.content_end - part.content_start
       ELSE Len(data) - (part.content_start - 1)
  ELSE IF part.content_end # NULL
  THEN part.content_end - 1
  ELSE Len(data)

\* got_chunk_handler: copy_from
chunk_copy_from(part) ==
  IF part.content_start # NULL THEN part.content_start ELSE 1

\* the boundary parameter the requests carry
Boundary == << "X", "Y", "Z" >>

\* got_chunk_handler (msg, chunk, httpep); a negative len makes
\* gst_allocator_alloc fail
GotChunk(m, data, ub) ==
  /\ ~crashed
  /\ m \in 1..Len(msgs)
  /\ msgs[m].chunkConn
  /\ msgs[m].finished = "F"
  /\ msgs[m].nchunks < MaxChunks
  /\ LET part == chunk_part(data, msgs[m].boundary, Boundary, ub)
         len == chunk_len(data, part)
         copy_from == chunk_copy_from(part)
     IN IF part.crash \/ len < 0
        THEN /\ crashed' = TRUE
             /\ msgs' = [msgs EXCEPT ![m].recvd = @ \o data,
                                     ![m].nchunks = @ + 1]
        ELSE /\ msgs' = [msgs EXCEPT
                           ![m].recvd = @ \o data,
                           ![m].nchunks = @ + 1,
                           ![m].pushed = @ \o SubSeq(data, copy_from,
                                                     copy_from + len - 1)]
             /\ UNCHANGED crashed
  /\ UNCHANGED << server, handlers, epVars, timers, idleq, prod, nextSample,
                  removedBy >>

\* ---- completion and expiry ----

\* finished_get_processing or finished_post_processing run for a message
\* whose handler is connected
finished_processing(m) ==
  /\ ~crashed
  /\ m \in 1..Len(msgs)
  /\ msgs[m].finConn
  /\ LET httpep == msgs[m].ep IN
     /\ msgs' = [msgs EXCEPT ![m].finished = "T",
                             ![m].nfin = @ + 1,
                             ![m].nexp = IF ExpiresNow(httpep) THEN @ + 1 ELSE @]
     /\ epSigs' = IF msgs[m].method = "GET"
                  THEN disconnect_eos_new_sample_signals(epSigs, m)
                  ELSE epSigs
     /\ epStart' = IF msgs[m].method = "GET"
                   THEN [epStart EXCEPT ![httpep] = FALSE]
                   ELSE epStart
     /\ epMessage' = [epMessage EXCEPT ![httpep] = NoMsg]     \* g_object_steal_data
     /\ timers' = emit_expiration_signal_timers(timers, m, httpep)
     /\ epTimeoutId' = [epTimeoutId EXCEPT ![httpep] = emit_expiration_signal_id(m, httpep)]
  /\ UNCHANGED << server, handlers, epCookie, epLifetime, epTimeout, idleq, prod,
                  nextSample, removedBy, crashed >>

\* the "finished" signal of a message, which libsoup emits once
Finished(m) ==
  /\ m \in 1..Len(msgs)
  /\ msgs[m].finished = "F"
  /\ finished_processing(m)

\* the "finished" signal emitted for a message once more: the handler is
\* still connected and runs again
FinishedAgain(m) ==
  /\ m \in 1..Len(msgs)
  /\ msgs[m].finished = "T"
  /\ msgs[m].nfin < MaxDeliveries
  /\ finished_processing(m)

\* emit_expiration_signal_cb: a timeout source whose interval has elapsed
TimerFire(t) ==
  /\ ~crashed
  /\ t \in timers
  /\ t.left = 0
  /\ LET path == msgs[t.id].path
         httpep == Lookup(path)
     IN /\ msgs' = [msgs EXCEPT ![t.id].nexp = @ + 1]
        /\ timers' = (IF httpep # NoEP THEN remove_cookie_timeout(timers, httpep)
                      ELSE timers) \ {t}
        /\ epTimeoutId' = IF httpep # NoEP
                          THEN [epTimeoutId EXCEPT ![httpep] = NoTimer]
                          ELSE epTimeoutId
  /\ UNCHANGED << server, handlers, epCookie, epLifetime, epTimeout, epMessage,
                  epStart, epSigs, idleq, prod, nextSample, removedBy,
                  crashed >>

\* ---- streaming thread of an element and the idle sources ----

\* the element emits new-sample on its streaming thread: new_sample_handler is
\* entered (it is connected, and media flows only while "start" is TRUE)
NewSampleEmit(ep) ==
  /\ ~crashed
  /\ prod[ep] = "idle"
  /\ epSigs[ep] # {}
  /\ epStart[ep]
  /\ nextSample < MaxSamples
  /\ prod' = [prod EXCEPT ![ep] = "entered"]
  /\ UNCHANGED << server, handlers, epVars, msgs, timers, idleq,
                  nextSample, removedBy, crashed >>

\* body of new_sample_handler: KEY_MESSAGE is read, the sample pulled and
\* send_buffer_cb queued; pulled is "null" (no sample), "ok" or "bad" (a sample
\* whose buffer is missing or cannot be mapped)
new_sample_handler(ep, pulled) ==
  /\ ~crashed
  /\ prod[ep] = "entered"
  /\ prod' = [prod EXCEPT ![ep] = "idle"]
  /\ IF pulled = "null"
     THEN UNCHANGED << msgs, idleq, nextSample >>
     ELSE LET msg == epMessage[ep]
              sample == [id |-> nextSample + 1, ok |-> (pulled = "ok")]
          IN /\ nextSample' = nextSample + 1
             /\ idleq' = Append(idleq, [msg |-> msg, sample |-> sample])
             /\ msgs' = IF msg = NoMsg THEN msgs
                        ELSE [msgs EXCEPT ![msg].submitted = Append(@, sample)]
  /\ UNCHANGED << server, handlers, epVars, timers, removedBy, crashed >>

\* msg_has_finished answering FALSE whatever the flag
finished_flag_ignored(msg) == {"F"}

\* outcomes of msg_has_finished in send_buffer_cb: the flag that is read, or,
\* when the message or its KEY_FINISHED datum is missing, what the invalid
\* read can give
FinishedRead(msg) ==
  IF msg = NoMsg THEN {"crash", "T"}       \* a "F" goes on to msg->response_body
  ELSE IF msgs[msg].finished = "none" THEN {"crash", "T", "F"}
  ELSE {msgs[msg].finished}

\* send_buffer_cb returning TRUE: the idle source stays and is dispatched again
idle_source_kept(q) == q

\* send_buffer_cb returns FALSE: the idle source that was dispatched is destroyed
idle_source_done(q) == Tail(q)

\* send_buffer_cb: the idle source at the head of the queue is dispatched
send_buffer_cb ==
  /\ ~crashed
  /\ idleq # << >>
  /\ LET sdata == Head(idleq) IN
     \E fin \in FinishedRead(sdata.msg) :
       IF fin = "crash"
       THEN /\ crashed' = TRUE
            /\ UNCHANGED << msgs, idleq >>
       ELSE /\ idleq' = idle_source_done(idleq)
            /\ msgs' = IF fin = "F" /\ sdata.sample.ok
                       THEN [msgs EXCEPT ![sdata.msg].body = Append(@, sdata.sample),
                                         ![sdata.msg].touchedBy = @ \cup {"loop"}]
                       ELSE msgs
            /\ UNCHANGED crashed
  /\ UNCHANGED << server, handlers, epVars, timers, prod, nextSample,
                  removedBy >>

\* get_recv_eos: the element emits eos on its streaming thread and the handler
\* connected for msg runs there
get_recv_eos(ep, msg) ==
  /\ ~crashed
  /\ prod[ep] = "idle"
  /\ msg \in epSigs[ep]
  /\ ~msgs[msg].complete
  /\ msgs' = [msgs EXCEPT ![msg].complete = TRUE,
                          ![msg].touchedBy = @ \cup {"streaming"}]
  /\ UNCHANGED << server, handlers, epVars, timers, idleq, prod,
                  nextSample, removedBy, crashed >>

\* ---- specification ----

\* the status got_headers_handler gives a request that it turns away before
\* binding it
RejectStatus(path) ==
  IF Lookup(path) = NoEP THEN SOUP_STATUS_NOT_FOUND ELSE SOUP_STATUS_BAD_REQUEST

\* what a step leaves in last when the inputs d ask for the log
Log(d, x) == last' = IF d.L THEN x ELSE NoStep

\* TRUE when a request for path would have kms_http_ep_server_set_cookie draw
\* a number
DrawsId(path) == Lookup(path) # NoEP /\ epCookie[Lookup(path)] = NoCookie

\* The steps of the program over the inputs d: elements d.E registered under
\* paths d.P, requests with methods d.M, cookie lists d.C and content types
\* d.T with or without a boundary parameter (d.B), numbers d.V drawn for
\* cookies, outcomes d.S of pull-sample, lifetimes d.Lt and idle timeouts d.To
\* passed to register, seconds d.N that pass at once; d.L asks for the public
\* calls and requests to be logged in last.
\* NextCtl: the public calls and the callbacks of the main context that deal
\* with requests, completions and timers.
NextCtl(d) ==
  \/ \E ep \in d.E, uri \in d.P, lifetime \in d.Lt, timeout \in d.To :
        /\ RegisterEndPoint(ep, uri, lifetime, timeout)
        /\ Log(d, [op |-> "register", ep |-> ep, uri |-> uri,
                   ok |-> register_handler_ok(uri)])
  \/ RegisterOther /\ Log(d, [op |-> "register", ep |-> NotHttp, uri |-> NoEP,
                               ok |-> FALSE])
  \/ \E uri \in d.P :
        /\ UnregisterEndPoint(uri)
        /\ Log(d, [op |-> "unregister", uri |-> uri, ok |-> (handlers' # handlers)])
  \/ Start /\ Log(d, NoStep)
  \/ Stop /\ Log(d, [op |-> "stop"])
  \/ \E n \in d.N : Tick(n) /\ Log(d, NoStep)
  \/ \E method \in d.M, path \in d.P, cookies \in d.C :
       \E id \in (IF DrawsId(path) THEN d.V ELSE {0}),
          ctype \in (IF method = "POST" THEN d.T ELSE {NoCT}) :
         \E hasBoundary \in (IF ctype = NoCT THEN {FALSE} ELSE d.B) :
            /\ GotHeaders(method, path, cookies, ctype, hasBoundary, id)
            /\ Log(d, [op |-> "request",
                       status |-> IF crashed' THEN 0
                                  ELSE IF Len(msgs') > Len(msgs)
                                  THEN msgs'[Len(msgs')].status
                                  ELSE RejectStatus(path)])
  \/ \E m \in MsgIds : Finished(m) /\ Log(d, NoStep)
  \/ \E t \in timers : TimerFire(t) /\ Log(d, NoStep)

\* NextData: the streaming threads and the idle sources they queue
NextData(d) ==
  \/ \E ep \in d.E : NewSampleEmit(ep) /\ Log(d, NoStep)
  \/ \E ep \in d.E, pulled \in d.S : new_sample_handler(ep, pulled) /\ Log(d, NoStep)
  \/ send_buffer_cb /\ Log(d, NoStep)
  \/ \E ep \in d.E, m \in MsgIds : get_recv_eos(ep, m) /\ Log(d, NoStep)

\* a request body of one part: "--boundary", the part's headers, an empty
\* line, the payload, and the closing "--boundary--"
Marker(boundary) == << Dash, Dash >> \o boundary
MultipartBody(boundary, headers, payload) ==
  Marker(boundary) \o CRLF \o headers \o CRLF \o CRLF \o payload
    \o CRLF \o Marker(boundary) \o << Dash, Dash >>

PartHeaders == << "h" >>
Payloads == { << "a", "b" >> }

\* the request bodies: the one part alone, and followed by a last CRLF
Bodies ==
  { MultipartBody(Boundary, PartHeaders, p) : p \in Payloads }
    \cup { MultipartBody(Boundary, PartHeaders, p) \o CRLF : p \in Payloads }

\* NextUpload: the next chunk of a request body d.D reaches the message, with
\* the memory around it read as d.U
NextUpload(d) ==
  \E m \in MsgIds, body \in d.D, ub \in d.U :
    /\ m \in 1..Len(msgs)
    /\ \E k \in 1..Len(body) :
         /\ Len(msgs[m].recvd) < k
         /\ SubSeq(body, 1, Len(msgs[m].recvd)) = msgs[m].recvd
         /\ GotChunk(m, SubSeq(body, Len(msgs[m].recvd) + 1, k), ub)
         /\ Log(d, NoStep)

Pulls == {"null", "ok", "bad"}
Cookie1 == << [name |-> COOKIE_NAME, value |-> 1] >>

\* the whole program
Full == [E |-> Endpoints, P |-> Paths, M |-> Methods, C |-> ReqCookies,
         T |-> CTypes, B |-> BOOLEAN, V |-> CookieVals, S |-> Pulls,
         D |-> Bodies, U |-> Undefined, Lt |-> Lifetimes, To |-> Timeouts,
    N |-> {1}, L |-> TRUE]
Next == NextCtl(Full) \/ NextData(Full) \/ NextUpload(Full)
Spec == Init /\ [][Next]_vars

\* the registry: two elements, two paths, GET requests of one client
RegistryInputs == [E |-> Endpoints, P |-> Paths, M |-> {"GET"}, C |-> {<< >>, Cookie1},
                   T |-> {NoCT}, B |-> {FALSE}, V |-> {1}, Lt |-> Lifetimes, To |-> Timeouts,
    N |-> {1}, L |-> TRUE]
NextRegistry == NextCtl(RegistryInputs)
SpecRegistry == Init /\ [][NextRegistry]_vars

\* transfers: one element under two paths, every method, one client
TransferInputs == [E |-> {"ep1"}, P |-> Paths, M |-> Methods, C |-> {<< >>, Cookie1},
                   T |-> {NoCT, <<"t", "/", "p">>}, B |-> {FALSE}, V |-> {1}, Lt |-> Lifetimes, To |-> Timeouts,
    N |-> {1}, L |-> FALSE]
NextTransfer == NextCtl(TransferInputs)
SpecTransfer == Init /\ [][NextTransfer]_vars

\* sessions: one element under one path, clients with every cookie list
SessionInputs == [E |-> {"ep1"}, P |-> {"/u1"}, M |-> Methods, C |-> ReqCookies,
                  T |-> {NoCT, <<"t", "/", "p">>}, B |-> {FALSE}, V |-> CookieVals, Lt |-> Lifetimes, To |-> Timeouts,
    N |-> {1}, L |-> TRUE]
NextSession == NextCtl(SessionInputs)
SpecSession == Init /\ [][NextSession]_vars

\* expiry: one element under one path, one client, and the main loop that
\* lets time pass and dispatches the timeout sources that are due
ExpiryInputs == [E |-> {"ep1"}, P |-> {"/u1"}, M |-> Methods, C |-> {<< >>, Cookie1},
                 T |-> {NoCT, <<"t", "/", "p">>}, B |-> {FALSE}, V |-> {1}, Lt |-> Lifetimes, To |-> Timeouts,
    N |-> {1}, L |-> FALSE]
NextExpiry == NextCtl(ExpiryInputs)
SpecExpiry == Init /\ [][NextExpiry]_vars
FairExpiry ==
  /\ SpecExpiry
  /\ WF_vars(Tick(1) /\ UNCHANGED last)
  /\ WF_vars(\E t \in timers : TimerFire(t) /\ UNCHANGED last)

\* streaming: one element under one path, GET requests of one client, the
\* element's streaming thread and the idle sources
StreamInputs == [E |-> {"ep1"}, P |-> {"/u1"}, M |-> {"GET"}, C |-> {<< >>, Cookie1},
                 T |-> {NoCT}, B |-> {FALSE}, V |-> {1}, S |-> Pulls, Lt |-> Lifetimes, To |-> Timeouts,
    N |-> {1}, L |-> FALSE]
NextStream == NextCtl(StreamInputs) \/ NextData(StreamInputs)
SpecStream == Init /\ [][NextStream]_vars

\* completion notified again: one element under one path, one client, the
\* "finished" signal of a message emitted more than once
RedeliverInputs == [E |-> {"ep1"}, P |-> {"/u1"}, M |-> Methods,
                    C |-> {<< >>, Cookie1}, T |-> {NoCT, <<"t", "/", "p">>},
                    B |-> {FALSE}, V |-> {1}, Lt |-> Lifetimes, To |-> Timeouts,
    N |-> {1}, L |-> FALSE]
NextRedeliver ==
  \/ NextCtl(RedeliverInputs)
  \/ \E m \in MsgIds : FinishedAgain(m) /\ Log(RedeliverInputs, NoStep)
SpecRedeliver == Init /\ [][NextRedeliver]_vars

\* a number of seconds whose milliseconds do not fit a guint
LongTime == 4294968

\* arming of the expiry: one element under one path, GET requests of one
\* client, short and long lifetimes and idle timeouts
ArmInputs == [E |-> {"ep1"}, P |-> {"/u1"}, M |-> {"GET"}, C |-> {<< >>, Cookie1},
              T |-> {NoCT}, B |-> {FALSE}, V |-> {1},
              Lt |-> Lifetimes \cup {LongTime}, To |-> Timeouts \cup {LongTime},
              N |-> {LongTime}, L |-> FALSE]
NextArm == NextCtl(ArmInputs)
SpecArm == Init /\ [][NextArm]_vars

\* another string of the length of Boundary
Decoy == << "A", "B", "C" >>

\* bodies for the search of the part: one part between lines of the
\* boundary and between lines of another string, a part without the empty
\* line after its headers, a closing line before a part
ExtractBodies ==
  { MultipartBody(Boundary, PartHeaders, << "a", "b" >>),
    MultipartBody(Boundary, PartHeaders, << "a", "b" >>) \o CRLF,
    MultipartBody(Decoy, PartHeaders, << "a", "b" >>) \o CRLF,
    Marker(Boundary) \o CRLF \o PartHeaders \o CRLF \o << "a", "b" >>,
    << "a" >> \o CRLF \o Marker(Boundary) \o << Dash, Dash >> \o CRLF
      \o MultipartBody(Boundary, PartHeaders, << "b" >>) \o CRLF }

\* the search of the part: POSTs with the boundary stored, to one element,
\* and the chunks of their bodies
ExtractInputs == [E |-> {"ep1"}, P |-> {"/u1"}, M |-> {"POST"},
                  C |-> {<< >>}, T |-> {Multipart}, B |-> {TRUE}, V |-> {1},
                  D |-> ExtractBodies, U |-> Undefined,
                  Lt |-> Lifetimes, To |-> Timeouts, N |-> {1}, L |-> FALSE]
NextExtract == NextCtl(ExtractInputs) \/ NextUpload(ExtractInputs)
SpecExtract == Init /\ [][NextExtract]_vars

\* POSTs of every content type to one element and the chunks of their bodies
PostInputs == [E |-> {"ep1"}, P |-> {"/u1"}, M |-> {"POST"},
               C |-> {<< >>}, T |-> CTypes, B |-> BOOLEAN, V |-> {1},
               D |-> Bodies, U |-> Undefined, Lt |-> Lifetimes, To |-> Timeouts,
    N |-> {1}, L |-> TRUE]
NextPost == NextCtl(PostInputs) \/ NextUpload(PostInputs)
SpecPost == Init /\ [][NextPost]_vars

\* ---- properties ----

Active(m) ==
  /\ m \in 1..Len(msgs)
  /\ msgs[m].finConn
  /\ msgs[m].finished = "F"

ActiveOn(e) == { m \in 1..Len(msgs) : msgs[m].ep = e /\ Active(m) }

\* C2: an element has at most one message with handlers installed, that
\* message is the one bound to it, and at most one message has new-sample
\* and eos handlers connected to the element.
C2_OneActiveTransfer ==
  \A e \in Endpoints :
    /\ Cardinality(ActiveOn(e)) <= 1
    /\ ActiveOn(e) \subseteq {epMessage[e]}
    /\ Cardinality(epSigs[e]) <= 1

\* a request was bound to an element whose earlier transfer was in progress,
\* and is now itself in progress
C2_Witness ==
  \E e \in Endpoints, m \in 1..Len(msgs) :
    /\ msgs[m].ep = e
    /\ msgs[m].torn = "replaced"
    /\ msgs[m].finished = "F"
    /\ epMessage[e] # m
    /\ Active(epMessage[e])

\* the request carries a cookie of the session's name with value v
Presents(cookies, v) ==
  \E i \in 1..Len(cookies) :
    cookies[i].name = COOKIE_NAME /\ cookies[i].value = v

\* a step that binds a new message to element e
BindsNew(e) ==
  /\ Len(msgs') = Len(msgs) + 1
  /\ msgs'[Len(msgs')].ep = e

\* C3 as claimed: a request for an element whose transfer is in progress does
\* not become the element's transfer (the binding only changes by completion
\* or unregistration).
C3_SecondRequestRejected ==
  [][\A e \in Endpoints :
       Active(epMessage[e]) => epMessage'[e] \in {epMessage[e], NoMsg}]_vars

\* C3 as the code has it: a request that presents the unexpired session's
\* cookie for an element whose transfer is in progress is not answered 400: it
\* is bound to the element (unless the process dies in the dispatch), and the
\* step that binds it tears the earlier transfer down: its handlers are
\* disconnected from the message and from the element, and the body of a GET
\* response is completed.
C3_SecondRequestReplaces ==
  [][last'.op = "request" =>
     \A method \in SessionInputs.M, path \in SessionInputs.P,
        cookies \in SessionInputs.C :
       \A ctype \in (IF method = "POST" THEN SessionInputs.T ELSE {NoCT}) :
         \A hasBoundary \in (IF ctype = NoCT THEN {FALSE} ELSE SessionInputs.B) :
           LET e == Lookup(path)
               old == epMessage[e]
           IN ( /\ e # NoEP
                /\ Active(old)
                /\ Presents(cookies, epCookie[e].value)
                /\ epCookie[e].left >= 0
                /\ GotHeaders(method, path, cookies, ctype, hasBoundary, 0) )
              => \/ crashed'
                 \/ /\ BindsNew(e)
                    /\ last'.status # SOUP_STATUS_BAD_REQUEST
                    /\ epMessage'[e] = Len(msgs')
                    /\ ~msgs'[old].finConn /\ ~msgs'[old].chunkConn
                    /\ old \notin epSigs'[e]
                    /\ msgs'[old].torn = "replaced"
                    /\ msgs[old].method = "GET" => msgs'[old].complete]_vars

\* a request has replaced a transfer that was in progress
C3_Witness ==
  \E e \in Endpoints, m \in 1..Len(msgs) :
    /\ msgs[m].ep = e
    /\ msgs[m].torn = "replaced"
    /\ msgs[m].finished = "F"
    /\ epMessage[e] = Len(msgs)
    /\ epMessage[e] # m

\* C4: a request for an element without a session is bound to it and gets a
\* Set-Cookie with the value stored as the session; a request for an element
\* with a session is bound (without Set-Cookie) when it presents the session's
\* name and value and the session has not expired; otherwise (another value,
\* no cookie, session expired) it is answered 400 and bound to nothing.
C4_CookieAdmission ==
  [][last'.op = "request" =>
     \A method \in SessionInputs.M, path \in SessionInputs.P,
        cookies \in SessionInputs.C :
       \A id \in (IF DrawsId(path) THEN SessionInputs.V ELSE {0}),
          ctype \in (IF method = "POST" THEN SessionInputs.T ELSE {NoCT}) :
         \A hasBoundary \in (IF ctype = NoCT THEN {FALSE} ELSE SessionInputs.B) :
           ( /\ Lookup(path) # NoEP
             /\ GotHeaders(method, path, cookies, ctype, hasBoundary, id) )
           => LET e == Lookup(path) IN
              IF epCookie[e] = NoCookie
              THEN \/ crashed'
                   \/ /\ BindsNew(e)
                      /\ msgs'[Len(msgs')].setCookie = id
                      /\ epCookie'[e].value = id
                      /\ last'.status # SOUP_STATUS_BAD_REQUEST
              ELSE IF Presents(cookies, epCookie[e].value) /\ epCookie[e].left >= 0
              THEN \/ crashed'
                   \/ /\ BindsNew(e)
                      /\ msgs'[Len(msgs')].setCookie = 0
                      /\ epCookie' = epCookie
                      /\ last'.status # SOUP_STATUS_BAD_REQUEST
              ELSE /\ last'.status = SOUP_STATUS_BAD_REQUEST
                   /\ UNCHANGED << msgs, epCookie, epMessage >>]_vars

\* a request with the session's cookie has been bound, and requests have been
\* answered 400: the last one carried another value, or came after expiry
C4_Witness ==
  /\ last.op = "request"
  /\ last.status = SOUP_STATUS_BAD_REQUEST
  /\ \E m \in 1..Len(msgs) : msgs[m].setCookie = 0
  /\ \E m \in 1..Len(msgs) : msgs[m].setCookie # 0

\* the transfer of message m ran to completion (its "finished" handler ran)
Completed(m) ==
  /\ m \in 1..Len(msgs)
  /\ msgs[m].finished = "T"

\* a transfer was admitted on the element of m after m completed
Interrupted(m) ==
  \E k \in (m + 1)..Len(msgs) :
    msgs[k].ep = msgs[m].ep /\ msgs[k].status = SOUP_STATUS_OK

\* the timeout source added at the completion of m is pending
TimerPending(m) == \E t \in timers : t.id = m

\* the idle period after the completion of m is over: url-expired has been
\* emitted for it, a new transfer was admitted, url-removed was emitted for
\* the path, or the process died
PeriodOver(m) ==
  \/ msgs[m].nexp = 1
  \/ Interrupted(m)
  \/ msgs[m].removed # "no"
  \/ crashed

\* C5: url-expired is emitted at most once for the idle period that follows
\* the completion of a transfer; once a new transfer is admitted on the
\* element the timer of that period is no longer pending; and the emission
\* does come, unless a new transfer is admitted, url-removed is emitted for
\* the path or the process dies first.
C5_ExpiryExactlyOnce ==
  \A m \in MsgIds :
    /\ [](m <= Len(msgs) => msgs[m].nexp <= 1)
    /\ []((Completed(m) /\ Interrupted(m)) => ~TimerPending(m))
    /\ (Completed(m) ~> (Completed(m) /\ PeriodOver(m)))

\* the last message bound to element e, 0 if there is none
LastBound(e) ==
  LET S == { k \in 1..Len(msgs) : msgs[k].ep = e }
  IN IF S = {} THEN 0 ELSE CHOOSE k \in S : \A j \in S : j <= k

\* element e is registered, has a session and no transfer in progress; the
\* last request bound to it came under the present registration of its path,
\* and no url-expired has been emitted since
ReclaimDue(e) ==
  /\ \E p \in Paths : Lookup(p) = e
  /\ epCookie[e] # NoCookie
  /\ ~Active(epMessage[e])
  /\ LastBound(e) # 0
  /\ msgs[LastBound(e)].removed = "no"
  /\ msgs[LastBound(e)].nexp = 0

\* C6: a registered element with a session that is left without a transfer in
\* progress after a request (whatever its status) is eventually reclaimed:
\* url-expired is emitted, unless a transfer is admitted or the element is
\* unregistered (or the process dies) first.
C6_IdleEventuallyReclaimed ==
  \A e \in Endpoints : ReclaimDue(e) ~> (~ReclaimDue(e) \/ crashed)

\* C7: when the path of a GET that ran to completion is unregistered,
\* url-removed is emitted for the path and the timeout source of the message
\* is removed; from then on no timeout source of the message is pending and
\* no url-expired is emitted for it.
C7_NoExpiryAfterUnregister ==
  [][\A m \in 1..Len(msgs) :
       (msgs[m].method = "GET" /\ Completed(m)) =>
         /\ ( /\ Lookup(msgs[m].path) # NoEP
              /\ Lookup(msgs[m].path)' = NoEP
              /\ ~handlers'.null )
            => /\ removedBy'[msgs[m].path] = "unregister"
               /\ msgs'[m].removed = "unregister"
               /\ ~TimerPending(m)'
         /\ msgs[m].removed = "unregister"
            => /\ ~TimerPending(m)
               /\ msgs'[m].nexp = msgs[m].nexp]_vars

\* a GET ran to completion, its timer was armed, and the path was
\* unregistered before url-expired was emitted
C7_Witness ==
  \E m \in 1..Len(msgs) :
    /\ msgs[m].method = "GET"
    /\ Completed(m)
    /\ msgs[m].removed = "unregister"
    /\ removedBy[msgs[m].path] = "unregister"
    /\ msgs[m].nexp = 0
    /\ ~cookie_has_expired(epCookie[msgs[m].ep])

\* samples that carry a buffer that can be mapped
OkSamples == { [id |-> i, ok |-> TRUE] : i \in 1..MaxSamples }

RECURSIVE QueuedFor(_, _)
\* the samples of the idle sources in q that were queued for message m
QueuedFor(q, m) ==
  IF q = << >> THEN << >>
  ELSE IF Head(q).msg = m THEN << Head(q).sample >> \o QueuedFor(Tail(q), m)
       ELSE QueuedFor(Tail(q), m)

\* s is an initial part of t
IsPrefix(s, t) == Len(s) <= Len(t) /\ s = SubSeq(t, 1, Len(s))

\* C8: the body of a GET response is made of the samples submitted for the
\* message, each at most once and in the order of submission; while the
\* message has not finished, the body followed by the samples still queued is
\* the whole sequence of the samples with a buffer submitted so far, so the
\* body is all of them once the queue has drained.
C8_BodyInSubmissionOrder ==
  \A m \in 1..Len(msgs) :
    msgs[m].method = "GET" =>
      /\ IsPrefix(msgs[m].body, SeqFilter(msgs[m].submitted, OkSamples))
      /\ msgs[m].finished = "F" =>
            msgs[m].body \o SeqFilter(QueuedFor(idleq, m), OkSamples)
              = SeqFilter(msgs[m].submitted, OkSamples)

\* two samples were submitted for a GET and both are in its body, in order
C8_Witness ==
  \E m \in 1..Len(msgs) :
    /\ msgs[m].method = "GET"
    /\ Len(msgs[m].body) = 2
    /\ msgs[m].body = msgs[m].submitted
    /\ msgs[m].body[1].id < msgs[m].body[2].id

\* C9: a GET that was in progress when its element was unregistered has its
\* finished flag set, and its response body no longer grows.
C9_UnregisterFinishesTransfer ==
  \A m \in 1..Len(msgs) :
    (msgs[m].method = "GET" /\ msgs[m].torn = "unreg") =>
      /\ msgs[m].finished = "T"
      /\ Len(msgs[m].body) = msgs[m].tornLen

\* C10: no response is modified from a streaming thread.
C10_ResponseOnlyOnLoopThread ==
  \A m \in 1..Len(msgs) : "streaming" \notin msgs[m].touchedBy

\* the parts of an element's state a request may touch: session, timeout
\* sources, bound message, handlers on the element, media flow
EpState == << epCookie, timers, epTimeoutId, epMessage, epSigs, epStart >>

\* C11: a request answered 405 leaves the session, the pending timeout
\* source, the bound message and the messages received before as they were.
C11_NotAllowedChangesNothing ==
  [][(last'.op = "request" /\ last'.status = SOUP_STATUS_METHOD_NOT_ALLOWED)
       => /\ UNCHANGED EpState
          /\ SubSeq(msgs', 1, Len(msgs)) = msgs]_vars

\* C12: a Set-Cookie is issued, and with it the session made, only on a
\* message answered 200.
C12_SessionOnlyOnSuccess ==
  \A m \in 1..Len(msgs) :
    msgs[m].setCookie # 0 => msgs[m].status = SOUP_STATUS_OK

\* C13: action-requested is emitted for the messages answered 200 and for no
\* others.
C13_ActionOnlyOnSuccess ==
  \A m \in 1..Len(msgs) :
    (msgs[m].action # "none") <=> (msgs[m].status = SOUP_STATUS_OK)

IsMultipartKind(ctype) == g_str_has_prefix(ctype, Multipart)

\* C15: a POST of a multipart content type is answered 406 with no handler
\* installed if the type has no boundary parameter, and 200 with the boundary
\* stored on the message if it has one.
C15_MultipartNeedsBoundary ==
  [][last'.op = "request" =>
     \A path \in PostInputs.P, cookies \in PostInputs.C,
        ctype \in PostInputs.T \ {NoCT}, hasBoundary \in PostInputs.B :
       ( /\ IsMultipartKind(ctype)
         /\ Len(msgs') > Len(msgs)
         /\ \E id \in PostInputs.V \cup {0} :
              GotHeaders("POST", path, cookies, ctype, hasBoundary, id) )
       => LET r == msgs'[Len(msgs')] IN
          IF hasBoundary
          THEN r.status = SOUP_STATUS_OK /\ r.boundary
          ELSE /\ r.status = SOUP_STATUS_NOT_ACCEPTABLE
               /\ ~r.chunkConn /\ ~r.finConn]_vars

\* C16: when the body "--boundary CRLF headers CRLF CRLF payload CRLF
\* --boundary--" of a POST of content type multipart/x with that boundary
\* arrives in one chunk, the bytes pushed to the element are the payload.
C16_OnePartBodyGivesPayload ==
  [][\A m \in MsgIds, p \in Payloads, ub \in PostInputs.U :
       ( /\ m \in 1..Len(msgs)
         /\ msgs[m].ctype = << "m", "/", "x" >>
         /\ msgs[m].bparam
         /\ msgs[m].nchunks = 0
         /\ GotChunk(m, MultipartBody(Boundary, PartHeaders, p), ub) )
       => /\ ~crashed'
          /\ msgs'[m].pushed = p]_vars

\* the lines that delimit the part: "--boundary CRLF" and
\* "CRLF --boundary--"
Delimiters(boundary) ==
  { Marker(boundary) \o CRLF, CRLF \o Marker(boundary) \o << Dash, Dash >> }

\* a split of body after its first k bytes falls inside a delimiter
CutsMarker(body, k) ==
  \E dl \in Delimiters(Boundary) :
    \E s \in 1..(Len(body) - Len(dl) + 1) :
      /\ SubSeq(body, s, s + Len(dl) - 1) = dl
      /\ s <= k
      /\ k < s + Len(dl) - 1

\* C17: when a one-part body arrives in two chunks split at an offset that
\* cuts no delimiter, the bytes got from the two chunks, one after the
\* other, are the payload.
C17_SplitBodyGivesPayload ==
  [][\A m \in MsgIds, p \in Payloads, ub \in PostInputs.U :
       \A body \in { b \in PostInputs.D :
                       SubSeq(b, 1, Len(MultipartBody(Boundary, PartHeaders, p)))
                         = MultipartBody(Boundary, PartHeaders, p) } :
         ( /\ m \in 1..Len(msgs)
           /\ msgs[m].boundary
           /\ msgs[m].nchunks = 1
           /\ msgs[m].recvd = SubSeq(body, 1, Len(msgs[m].recvd))
           /\ Len(msgs[m].recvd) < Len(body)
           /\ ~CutsMarker(body, Len(msgs[m].recvd))
           /\ GotChunk(m, SubSeq(body, Len(msgs[m].recvd) + 1, Len(body)), ub) )
         => /\ ~crashed'
            /\ msgs'[m].pushed = p]_vars

\* C18: a second run of the "finished" handler of a message changes
\* nothing: no handler disconnected, no message unbound, no timeout source
\* added and no url-expired emitted beyond those of the first run.
C18_CompletionIdempotent ==
  [][\A m \in MsgIds :
       FinishedAgain(m) => /\ UNCHANGED EpState
                           /\ msgs' = [msgs EXCEPT ![m].nfin = @ + 1]]_vars

\* no message has been bound for path since url-removed was last emitted
\* for it
NoneSinceRemoval(path) ==
  \A m \in 1..Len(msgs) : msgs[m].path = path => msgs[m].removed # "no"

\* C19: unregistering a path leaves its element without a session, and the
\* first request without a cookie that comes for the path the element is
\* registered under afterwards is bound and gets a Set-Cookie.
C19_UnregisterEndsSession ==
  [][/\ \A uri \in SessionInputs.P :
          (last'.op = "unregister" /\ last'.uri = uri /\ last'.ok)
            => epCookie'[Lookup(uri)] = NoCookie
     /\ last'.op = "request" =>
          \A method \in SessionInputs.M, path \in SessionInputs.P :
            \A id \in (IF DrawsId(path) THEN SessionInputs.V ELSE {0}),
               ctype \in (IF method = "POST" THEN SessionInputs.T ELSE {NoCT}) :
              ( /\ Lookup(path) # NoEP
                /\ \E k \in 1..Len(msgs) :
                     msgs[k].path = path /\ msgs[k].removed = "unregister"
                /\ NoneSinceRemoval(path)
                /\ GotHeaders(method, path, << >>, ctype, FALSE, id) )
              => /\ Len(msgs') > Len(msgs)
                 /\ msgs'[Len(msgs')].setCookie # 0]_vars

\* C20: a call of stop emits url-removed for every path registered at the
\* time, and no path resolves to an element after it, whether the server
\* had been started or not.
C20_StopRemovesEveryPath ==
  [][last'.op = "stop" =>
       \A p \in Paths :
         /\ Lookup(p) # NoEP => removedBy'[p] = "stop"
         /\ Lookup(p)' = NoEP]_vars

\* C21: when the "finished" handler of a message runs and the session of its
\* element has not expired, one timeout source is added that is due after
\* the smaller of the seconds the session has left and the idle timeout of
\* the element, and no url-expired is emitted; when the session has expired,
\* url-expired is emitted and no timeout source is added.
C21_ArmedForTheMinimum ==
  [][\A m \in MsgIds :
       Finished(m) =>
         LET e == msgs[m].ep IN
         IF epCookie[e].left >= 0
         THEN /\ timers' = timers \cup
                    { [id |-> m, left |-> Min(epCookie[e].left, epTimeout[e])] }
              /\ msgs'[m].nexp = msgs[m].nexp
         ELSE /\ timers' = timers
              /\ msgs'[m].nexp = msgs[m].nexp + 1]_vars

\* C22: once the "finished" handler of a message has set its flag, the
\* response body of the message does not grow, whatever idle sources are
\* still queued for it.
C22_NoAppendAfterFinished ==
  [][\A m \in 1..Len(msgs) :
       msgs[m].finished = "T" => msgs'[m].body = msgs[m].body]_vars

\* an idle source of a finished GET has been dispatched and its sample, which
\* has a buffer, is not in the body
C22_Witness ==
  \E m \in 1..Len(msgs) :
    /\ msgs[m].method = "GET"
    /\ msgs[m].finished = "T"
    /\ \E i \in 1..Len(msgs[m].submitted) :
         LET sample == msgs[m].submitted[i] IN
         /\ sample.ok
         /\ \A j \in 1..Len(msgs[m].body) : msgs[m].body[j] # sample
         /\ \A j \in 1..Len(idleq) : idleq[j].sample # sample

\* got_chunk_handler has just run for message m
ChunkStep(m) ==
  /\ m \in 1..Len(msgs)
  /\ msgs'[m].nchunks = msgs[m].nchunks + 1

\* the chunk it was given
ChunkGot(m) ==
  SubSeq(msgs'[m].recvd, Len(msgs[m].recvd) + 1, Len(msgs'[m].recvd))

\* the bytes it pushed to the element
ChunkPushed(m) ==
  SubSeq(msgs'[m].pushed, Len(msgs[m].pushed) + 1, Len(msgs'[m].pushed))

\* the string w stands at position p of data
StandsAt(w, data, p) ==
  /\ p >= 1
  /\ p + Len(w) - 1 <= Len(data)
  /\ SubSeq(data, p, p + Len(w) - 1) = w

\* C23: in a chunk where "--" followed by the boundary stands nowhere, no
\* position is taken for a marker, whatever else follows "--" at the start
\* of a line: no part start and no part end is found and the whole chunk is
\* pushed.
C23_OnlyTheBoundaryIsAMarker ==
  [][\A m \in MsgIds :
       ( /\ ChunkStep(m)
         /\ msgs[m].boundary
         /\ \A p \in 1..Len(ChunkGot(m)) :
              ~StandsAt(Marker(Boundary), ChunkGot(m), p) )
       => /\ \A ub \in ExtractInputs.U :
               LET part == find_content_part(ChunkGot(m), Boundary, ub) IN
               part.content_start = NULL /\ part.content_end = NULL
          /\ ~crashed'
          /\ ChunkPushed(m) = ChunkGot(m)]_vars

\* the line "--boundary--" that closes the part stands at position t of data,
\* after a CRLF
ClosingLineAt(data, t) ==
  /\ StandsAt(CRLF, data, t - 2)
  /\ StandsAt(Marker(Boundary) \o << Dash, Dash >>, data, t)

\* C24: for a chunk with one closing line "--boundary--" after a CRLF, be it
\* the last bytes of the chunk or not, the part end found is 2 bytes before
\* the line, and what is pushed ends there: neither the CRLF nor the line
\* is pushed.
C24_ContentEndsBeforeClosingLine ==
  [][\A m \in MsgIds :
       ( /\ ChunkStep(m)
         /\ msgs[m].boundary )
       => \A t \in 1..Len(ChunkGot(m)) :
            ( /\ ClosingLineAt(ChunkGot(m), t)
              /\ \A u \in 1..Len(ChunkGot(m)) :
                   ClosingLineAt(ChunkGot(m), u) => u = t )
            => /\ \A ub \in ExtractInputs.U :
                    find_content_part(ChunkGot(m), Boundary, ub).content_end = t - 2
               /\ ~crashed'
               /\ \E from \in 1..(t - 2) :
                    ChunkPushed(m) = SubSeq(ChunkGot(m), from, t - 3)]_vars

\* the line "--boundary" that opens a part stands at position t of data, at
\* the start of the chunk or after a CRLF
PartLineAt(data, t) ==
  /\ t = 1 \/ StandsAt(CRLF, data, t - 2)
  /\ StandsAt(Marker(Boundary) \o CRLF, data, t)

\* the empty lines (CRLF CRLF) of data that end the headers of the part
\* opened at t
BlankLines(data, t) ==
  { q \in (t + Len(Marker(Boundary)) + 2)..Len(data) :
      StandsAt(CRLF \o CRLF, data, q) }

\* C25: for a chunk with one line "--boundary CRLF", bytes after it and no
\* closing line:
\* if an empty line follows in the chunk, what is pushed starts at the first
\* byte after the first one; if none follows, the handler still pushes, and
\* what it pushes is the chunk from the first byte after the line.
C25_ContentStartsAfterHeaders ==
  [][\A m \in MsgIds :
       ( /\ ChunkStep(m)
         /\ msgs[m].boundary )
       => LET data == ChunkGot(m) IN
          \A t \in 1..Len(data) :
            ( /\ PartLineAt(data, t)
              /\ t + Len(Marker(Boundary)) + 2 <= Len(data)
              /\ \A u \in 1..Len(data) : PartLineAt(data, u) => u = t
              /\ \A u \in 1..Len(data) :
                   ~StandsAt(Marker(Boundary) \o << Dash, Dash >>, data, u) )
            => /\ ~crashed'
               /\ IF BlankLines(data, t) # {}
                  THEN \E q \in BlankLines(data, t) :
                         /\ \A r \in BlankLines(data, t) : q <= r
                         /\ ChunkPushed(m) = SubSeq(data, q + 4, Len(data))
                  ELSE ChunkPushed(m) =
                         SubSeq(data, t + Len(Marker(Boundary)) + 2, Len(data))]_vars

\* C30: the range got_chunk_handler copies lies within the chunk and its
\* length is not negative, whatever markers the chunk holds and in whatever
\* order (for the chunks whose search gives one result whatever lies
\* outside the chunk).
C30_CopiedRangeWithinChunk ==
  [][\A m \in MsgIds :
       ( /\ ChunkStep(m)
         /\ msgs[m].boundary
         /\ \A u1, u2 \in ExtractInputs.U :
              find_content_part(ChunkGot(m), Boundary, u1)
                = find_content_part(ChunkGot(m), Boundary, u2) )
       => /\ \A ub \in ExtractInputs.U :
               LET data == ChunkGot(m)
                   part == find_content_part(data, Boundary, ub)
                   len == chunk_len(data, part)
                   copy_from == chunk_copy_from(part)
               IN /\ len >= 0
                  /\ copy_from >= 1
                  /\ copy_from + len - 1 <= Len(data)
          /\ ~crashed']_vars

\* C26: once url-removed has been emitted for the path of a message, by an
\* unregistration or by stop, no url-expired is emitted for that message's
\* path on its account.
C26_NoExpiryAfterRemoval ==
  [][\A m \in 1..Len(msgs) :
       msgs[m].removed # "no" => msgs'[m].nexp = msgs[m].nexp]_vars

\* C27: the message bound to an element was answered 200 and carries its
\* finished flag, its "finished" handler and the handlers of its method
\* (got-chunk for a POST, new-sample and eos on the element for a GET), so
\* that its release reads no missing handler id.
C27_BoundMessageHasHandlers ==
  \A e \in Endpoints :
    epMessage[e] # NoMsg =>
      LET r == msgs[epMessage[e]] IN
      /\ r.status = SOUP_STATUS_OK
      /\ r.finished # "none"
      /\ r.finConn
      /\ r.method = "POST" => r.chunkConn
      /\ r.method = "GET" => epMessage[e] \in epSigs[e]
      /\ ~dpm_faults(epMessage[e])

\* C28: when the eos handler of a GET marks its response body complete,
\* every sample with a buffer that was submitted for the message before is
\* in the body.
C28_NoSampleLostAtEos ==
  [][\A ep \in StreamInputs.E, m \in MsgIds :
       ( /\ m \in 1..Len(msgs)
         /\ get_recv_eos(ep, m) )
       => \A i \in 1..Len(msgs[m].submitted) :
            msgs[m].submitted[i].ok
              => \E j \in 1..Len(msgs[m].body) :
                   msgs[m].body[j] = msgs[m].submitted[i]]_vars

\* C29: every write task queued on the event loop refers to a message, and
\* that message carries a finished flag the task can read.
C29_WriteTaskHasLiveMessage ==
  \A i \in 1..Len(idleq) :
    /\ idleq[i].msg # NoMsg
    /\ FinishedRead(idleq[i].msg) \subseteq {"T", "F"}

====
